---- MODULE Spec2Model ----
(***************************************************************************)
(* State-machine model of the CosmicPhotobooth component                   *)
(* (src/src/components/CosmicPhotobooth.tsx): the camera acquisition, the  *)
(* timed 3-shot capture loop of startPhotoSequence, and the strip          *)
(* compositor downloadPhotoStrip with its loadedCount barrier.             *)
(*                                                                         *)
(* React state is modelled by one variable per useState hook (the value    *)
(* after all queued updates) plus `rendered`, the values seen by the last  *)
(* committed render.  Closures created by a render (the click handlers,    *)
(* capturePhoto, downloadPhotoStrip) read the values of that render.       *)
(* Updates made inside a click handler are committed before the handler    *)
(* returns to the browser; updates made from a timer or promise            *)
(* continuation are committed by the later step Render.                    *)
(*                                                                         *)
(* The auth service (src/src/lib/auth.ts), the route guard                 *)
(* (src/src/components/ProtectedRoute.tsx) and the sign-in form            *)
(* (src/src/pages/LoginPage.tsx) are modelled over the two browser         *)
(* storages.  An auth call is two steps: the call, which waits for the     *)
(* simulated network delay, and the rest of its body, which runs without   *)
(* interruption once the delay is over.                                    *)
(***************************************************************************)
EXTENDS Integers, Sequences, FiniteSets, TLC

\* ---- bounds of the model ----
MaxRuns == 2          \* capture runs that may be started
MaxComposes == 2      \* compose (download) calls that may be issued
NumFilters == 2       \* entries of the filter catalog that are selectable
MaxStickerComposes == 1  \* Download presses explored with a sticker theme
MaxPending == 1       \* auth calls of any kind that may wait for their delay at once
MaxOverlap == 2       \* register calls that may wait for their delay at once
RandomSteps == 4      \* Math.random() yields r / RandomSteps, r in 0..RandomSteps-1

\* ---- program constants ----
NumShots == 3
photoWidth == 400
photoHeight == 300
previewPaddingTop == 60
previewPhotoGap == 10
previewDatePadding == 16
dateTextHeight == 24
stripMargin == 40
photoLeft == 20

CountdownTimes == {3, 5, 10}
Filters == 1..NumFilters          \* index into `filters`; 1 is 'No Filter'
NoStream == "null"
\* STICKER_THEMES: value |-> number of images
StickerThemes == [none |-> 0, heart |-> 1, star |-> 1, cat |-> 1, cartoon |-> 1]
RandomValues == 0..(RandomSteps - 1)
MediaStream == "mediaStream"

\* ---- strings of the auth service ----
\* A string is a sequence of symbols: single characters, and the words
\* "gmail.com" and "yahoo.com" standing for their characters.  "U+044F" and
\* "U+20AC" are characters outside Latin-1; " " is whitespace.
NonLatin1 == {"U+044F", "U+20AC"}
Whitespace == {" "}
EmailA == <<"a", "@", "gmail.com">>
EmailB == <<"b", "@", "gmail.com">>
EmailCyr == <<"U+044F", "@", "gmail.com">>
EmailYahoo == <<"a", "@", "yahoo.com">>
EmailNoLocal == <<"@", "gmail.com">>
PwSecret == <<"s", "e", "c", "r", "e", "t">>
PwOther == <<"s", "e", "c", "r", "e", "T">>
PwShort == <<"a", "b", "c">>
PwEuro == <<"U+20AC", "1", "2", "3", "4", "5">>
NoToken == <<>>
NoFrom == ""

ErrDomain == "Only @gmail.com accounts are allowed."
ErrPassword == "Password must be at least 6 characters."
ErrExists == "Account already exists. Try signing in."
ErrNotFound == "Account not found. Please create an account first."
ErrIncorrect == "Incorrect password."
ErrBtoa == "InvalidCharacterError"

VARIABLES
    mounted,              \* the component is mounted (refs are attached)
    cameraPc,             \* getUserMedia: "pending", "granted", "denied"
    tracks,               \* tracks of the acquired stream: "none", "live", "stopped"
    srcObject,            \* videoRef.current.srcObject
    stream,               \* useState hooks, in source order
    activeFilter,
    countdownTime,
    isCountingDown,
    countdownValue,
    capturedPhotos,
    isCapturing,
    captureTime,
    selectedStickerTheme,
    selectedStripStyle,
    rendered,             \* values of the last committed render
    dlClosure,            \* values captured by the memoized downloadPhotoStrip
    loops,                \* one record per invocation of the capture loop
    runs,                 \* number of capture loops started
    grabbed,              \* shots of the latest run whose surface was available
    attempts,             \* capturePhoto calls of the latest run
    startOutcome,         \* what the last start request did
    composes,             \* one record per downloadPhotoStrip call that drew
    users,                \* localStorage 'photobooth_users', in insertion order
    localToken,           \* localStorage 'photobooth_auth_token'
    sessionToken,         \* sessionStorage 'photobooth_auth_token'
    pending,              \* auth calls of this page that wait for their delay
    lastResult,           \* how the auth call that settled last ended
    location,             \* the router's location: pathname and state.from
    view                  \* what the router has rendered for the location

stateVars == <<stream, activeFilter, countdownTime, isCountingDown, countdownValue,
               capturedPhotos, isCapturing, captureTime,
               selectedStickerTheme, selectedStripStyle>>
cameraVars == <<cameraPc, tracks, srcObject>>
histVars == <<runs, grabbed, attempts, startOutcome>>
authVars == <<users, localToken, sessionToken, pending, lastResult, location, view>>
boothVars == <<mounted, cameraVars, stateVars, rendered, dlClosure, loops, histVars,
               composes>>
vars == <<boothVars, authVars>>

\* ---- helpers ----
\* a loop invocation: its position and its locals; the locals of an
\* invocation that has not started or has returned are dead
IdleLoop == [pc |-> "idle", i |-> 0, count |-> 0, countdownTime |-> 0, filter |-> 0]
DoneLoop == [pc |-> "done", i |-> 3, count |-> 0, countdownTime |-> 0, filter |-> 0]

ActiveLoops == {l \in 1..MaxRuns : loops[l].pc \in {"countdown", "pause"}}

\* the values a render closes over
RenderOf(cap, photos, str) ==
    [isCapturing |-> cap, capturedPhotos |-> photos, stream |-> str]

\* downloadPhotoStrip is re-created only when capturedPhotos or
\* selectedStripStyle changes; it then captures the values of that render
FreshDlClosure(filter, time, theme) ==
    [activeFilter |-> filter, captureTime |-> time, selectedStickerTheme |-> theme]

\* variant: the height computed for a fixed count of three photos
StripHeightFixedCount(numPhotos) ==
    previewPaddingTop + (photoHeight * NumShots)
      + (previewPhotoGap * (NumShots - 1)) + previewDatePadding + dateTextHeight

\* stripHeight of downloadPhotoStrip
StripHeight(numPhotos) ==
    previewPaddingTop + (photoHeight * numPhotos)
      + (previewPhotoGap * (numPhotos - 1)) + previewDatePadding + dateTextHeight

StripWidth == photoWidth + stripMargin

\* variant: the slots are stacked without the gap and the photo height
SlotYGapOnly(index) == previewPaddingTop + (index * previewPhotoGap)

\* y position of the photo at 0-based index
SlotY(index) == previewPaddingTop + (index * (photoHeight + previewPhotoGap))

\* ---- the auth service: pure parts ----

\* btoa accepts a string iff all its characters are in Latin-1
CanEncode(str) == \A i \in 1..Len(str) : str[i] \notin NonLatin1

\* btoa(str) for a string it accepts: base64 is one-to-one
btoa(str) == <<"b64">> \o str

\* hashPassword(password), where btoa accepts the password
hashPassword(password) == btoa(password)

\* /^[^\s@]+@gmail\.com$/.test(email)
isValidGmailEmail(email) ==
    /\ Len(email) >= 3
    /\ email[Len(email) - 1] = "@"
    /\ email[Len(email)] = "gmail.com"
    /\ \A i \in 1..(Len(email) - 2) : email[i] \notin (Whitespace \cup {"@"})

\* a record of the user store: the key and the stored password stub
User(email, hashedPasswordStub) == <<email, hashedPasswordStub>>
UserEmail(user) == user[1]
UserStub(user) == user[2]

\* the router's location: the path and state.from
Location(pathname, from) == <<pathname, from>>
Pathname(loc) == loc[1]
From(loc) == loc[2]

\* users[email]: the position of the record stored under the key, 0 if none
UserIndex(store, email) ==
    IF \E i \in 1..Len(store) : UserEmail(store[i]) = email
      THEN CHOOSE i \in 1..Len(store) : UserEmail(store[i]) = email
      ELSE 0

\* the string `${email}:${Date.now()}:${Math.random()}`
TokenPayload(email) == email \o <<":", "now", ":", "random">>

\* variant: an existing record is replaced by the new registration
registerResultOverwrite(store, email, password) ==
    IF ~isValidGmailEmail(email) THEN ErrDomain
    ELSE IF Len(password) < 6 THEN ErrPassword
    ELSE IF ~CanEncode(password) THEN ErrBtoa
    ELSE "ok"

\* how register ends for the store read after the delay
registerResult(store, email, password) ==
    IF ~isValidGmailEmail(email) THEN ErrDomain
    ELSE IF Len(password) < 6 THEN ErrPassword
    ELSE IF UserIndex(store, email) # 0 THEN ErrExists
    ELSE IF ~CanEncode(password) THEN ErrBtoa
    ELSE "ok"

\* users[email] = newUser: a new key goes last, an existing key keeps its place
PutUser(store, email, password) ==
    LET rec == User(email, hashPassword(password))
        i == UserIndex(store, email)
    IN IF i = 0 THEN Append(store, rec) ELSE [store EXCEPT ![i] = rec]

\* variant: the password is not compared with the stored one
loginResultNoPasswordCheck(store, email, password) ==
    IF ~isValidGmailEmail(email) THEN ErrDomain
    ELSE IF UserIndex(store, email) = 0 THEN ErrNotFound
    ELSE IF ~CanEncode(TokenPayload(email)) THEN ErrBtoa
    ELSE "ok"

\* how login ends for the store read after the delay
loginResult(store, email, password) ==
    IF ~isValidGmailEmail(email) THEN ErrDomain
    ELSE IF UserIndex(store, email) = 0 THEN ErrNotFound
    ELSE IF ~CanEncode(password) THEN ErrBtoa
    ELSE IF hashPassword(password) # UserStub(store[UserIndex(store, email)])
      THEN ErrIncorrect
    ELSE IF ~CanEncode(TokenPayload(email)) THEN ErrBtoa
    ELSE "ok"

\* variant: only localStorage is consulted
getTokenLocalOnly == localToken

\* localStorage.getItem(KEY) || sessionStorage.getItem(KEY)
getToken == IF localToken # NoToken THEN localToken ELSE sessionToken

\* !!this.getToken()
isAuthenticated == getToken # NoToken

\* a signed-in visitor looking at the protected page
SignedIn ==
    /\ users = <<User(EmailA, hashPassword(PwSecret))>>
    /\ localToken = NoToken
    /\ sessionToken = btoa(TokenPayload(EmailA))
    /\ pending = <<>>
    /\ lastResult = "ok"
    /\ location = Location("/photobooth", NoFrom)
    /\ view = "children"

Init ==
    /\ SignedIn
    /\ mounted = TRUE
    /\ cameraPc = "pending"
    /\ tracks = "none"
    /\ srcObject = NoStream
    /\ stream = NoStream
    /\ activeFilter = 1
    /\ countdownTime = 3
    /\ isCountingDown = FALSE
    /\ countdownValue = 0
    /\ capturedPhotos = <<>>
    /\ isCapturing = FALSE
    /\ captureTime = 0
    /\ selectedStickerTheme = "none"
    /\ selectedStripStyle = "strip-custom"
    /\ rendered = RenderOf(FALSE, <<>>, NoStream)
    /\ dlClosure = FreshDlClosure(1, 0, "none")
    /\ loops = [l \in 1..MaxRuns |-> IdleLoop]
    /\ runs = 0
    /\ grabbed = <<>>
    /\ attempts = 0
    /\ startOutcome = "none"
    /\ composes = <<>>

\* ---- camera ----

\* getUserMedia resolves: setStream(mediaStream) and attach to the video
CameraGranted ==
    /\ cameraPc = "pending"
    /\ cameraPc' = "granted"
    /\ tracks' = "live"
    /\ IF mounted
         THEN /\ stream' = MediaStream
              /\ srcObject' = MediaStream
         ELSE UNCHANGED <<stream, srcObject>>
    /\ UNCHANGED <<mounted, activeFilter, countdownTime, isCountingDown, countdownValue,
                   capturedPhotos, isCapturing, captureTime, selectedStickerTheme,
                   selectedStripStyle, rendered, dlClosure, loops, histVars, composes>>
    /\ UNCHANGED authVars

\* getUserMedia rejects: the error is logged
CameraDenied ==
    /\ cameraPc = "pending"
    /\ cameraPc' = "denied"
    /\ UNCHANGED <<mounted, tracks, srcObject, stateVars, rendered, dlClosure,
                   loops, histVars, composes>>
    /\ UNCHANGED authVars

\* commit of the updates queued by timer and promise continuations
Render ==
    /\ mounted
    /\ rendered # RenderOf(isCapturing, capturedPhotos, stream)
    /\ rendered' = RenderOf(isCapturing, capturedPhotos, stream)
    /\ dlClosure' = IF rendered.capturedPhotos # capturedPhotos
                      THEN FreshDlClosure(activeFilter, captureTime, selectedStickerTheme)
                      ELSE dlClosure
    /\ UNCHANGED <<mounted, cameraVars, stateVars, loops, histVars, composes>>
    /\ UNCHANGED authVars

\* unmount: the cleanup of the committed [stream] effect stops the tracks
\* of the stream that render saw; the refs are detached
Unmount ==
    /\ mounted
    /\ mounted' = FALSE
    /\ tracks' = IF rendered.stream # NoStream THEN "stopped" ELSE tracks
    /\ srcObject' = NoStream
    /\ UNCHANGED <<cameraPc, stateVars, rendered, dlClosure, loops, histVars, composes>>
    /\ UNCHANGED authVars

\* ---- Capture Sequencer ----

\* variant: the button is disabled only while capturing
ButtonDisabledNoStreamCheck == rendered.isCapturing

\* disabled={isCapturing || !stream} of the Capture button
ButtonDisabled == rendered.isCapturing \/ rendered.stream = NoStream

\* variant: the capturing flag is not raised at the start
StartUpdatesNoFlag(photos, now) ==
    [isCapturing |-> FALSE, capturedPhotos |-> <<>>, captureTime |-> now]

\* variant: the capture time is not recorded at the start
StartUpdatesNoTime(photos, now) ==
    [isCapturing |-> TRUE, capturedPhotos |-> <<>>, captureTime |-> 0]

\* variant: the previous snapshots are kept at the start
StartUpdatesNoReset(photos, now) ==
    [isCapturing |-> TRUE, capturedPhotos |-> photos, captureTime |-> now]

\* the three state updates at the head of startPhotoSequence
StartUpdates(photos, now) ==
    [isCapturing |-> TRUE, capturedPhotos |-> <<>>, captureTime |-> now]

\* variant: the context check is missing
capturePhotoNoCtxCheck(run, shot, filter, refsAttached, ctxOk) ==
    IF ~refsAttached THEN <<>>
    ELSE <<[run |-> run, shot |-> shot, filter |-> filter]>>

\* capturePhoto: <<>> stands for null, <<snapshot>> for the data URL
capturePhoto(run, shot, filter, refsAttached, ctxOk) ==
    IF ~refsAttached THEN <<>>
    ELSE IF ~ctxOk THEN <<>>
    ELSE <<[run |-> run, shot |-> shot, filter |-> filter]>>

\* variant: the new snapshot is put in front
PrependPhoto(prev, photo) == photo \o prev

\* setCapturedPhotos(prev => [...prev, photo])
AppendPhoto(prev, photo) == prev \o photo

\* body of startPhotoSequence up to its first await
startPhotoSequence ==
    IF rendered.isCapturing
      THEN /\ startOutcome' = "ignored"
           /\ UNCHANGED <<mounted, cameraVars, stateVars, rendered, dlClosure,
                          loops, runs, grabbed, attempts, composes>>
      ELSE LET u == StartUpdates(capturedPhotos, runs + 1) IN
           /\ runs < MaxRuns
           /\ isCapturing' = u.isCapturing
           /\ capturedPhotos' = u.capturedPhotos
           /\ captureTime' = u.captureTime
           /\ isCountingDown' = TRUE
           /\ countdownValue' = countdownTime
           /\ runs' = runs + 1
           /\ loops' = [loops EXCEPT ![runs + 1] =
                          [pc |-> "countdown", i |-> 0, count |-> countdownTime,
                           countdownTime |-> countdownTime, filter |-> activeFilter]]
           /\ grabbed' = <<>>
           /\ attempts' = 0
           /\ rendered' = RenderOf(u.isCapturing, u.capturedPhotos, rendered.stream)
           /\ dlClosure' = FreshDlClosure(activeFilter, u.captureTime, selectedStickerTheme)
           /\ startOutcome' = "started"
           /\ UNCHANGED <<mounted, cameraVars, stream, activeFilter, countdownTime,
                          selectedStickerTheme, selectedStripStyle, composes>>

\* the user presses the Capture button
StartRequest ==
    /\ mounted
    /\ IF ButtonDisabled
         THEN /\ startOutcome' = "ignored"
              /\ UNCHANGED <<mounted, cameraVars, stateVars, rendered, dlClosure,
                             loops, runs, grabbed, attempts, composes>>
         ELSE startPhotoSequence
    /\ UNCHANGED authVars

\* a 1-second countdown timer fires and the countdown goes on
CountdownTick(l) ==
    /\ loops[l].pc = "countdown"
    /\ loops[l].count > 1
    /\ loops' = [loops EXCEPT ![l].count = @ - 1]
    /\ countdownValue' = IF mounted THEN loops[l].count - 1 ELSE countdownValue
    /\ UNCHANGED <<mounted, cameraVars, stream, activeFilter, countdownTime,
                   isCountingDown, capturedPhotos, isCapturing, captureTime,
                   selectedStickerTheme, selectedStripStyle, rendered, dlClosure,
                   histVars, composes>>
    /\ UNCHANGED authVars

\* variant: off-by-one loop bound
LoopContinuesOneMore(i) == i <= NumShots

\* for (let i = 0; i < 3; i++)
LoopContinues(i) == i < NumShots

\* variant: a pause after every shot, the last one included
PauseNeededAfterEveryShot(i) == i < 3

\* if (i < 2): the pause between two shots
PauseNeeded(i) == i < 2

\* the last countdown timer of a shot fires: the shot is attempted, then the
\* loop pauses (shots 1 and 2), or goes on to its next iteration, or ends
Shot(l) ==
    /\ loops[l].pc = "countdown"
    /\ loops[l].count = 1
    /\ \E ctxOk \in BOOLEAN :
         LET i == loops[l].i
             photo == capturePhoto(l, i + 1, loops[l].filter, mounted, ctxOk)
             pause == PauseNeeded(i)
             again == ~pause /\ LoopContinues(i + 1)
             return == ~pause /\ ~LoopContinues(i + 1)
         IN /\ loops' = [loops EXCEPT ![l] =
                           IF pause THEN [@ EXCEPT !.count = 0, !.pc = "pause"]
                           ELSE IF again
                             THEN [@ EXCEPT !.i = i + 1, !.count = loops[l].countdownTime]
                             ELSE DoneLoop]
            /\ grabbed' = IF mounted /\ ctxOk THEN Append(grabbed, i + 1) ELSE grabbed
            /\ attempts' = attempts + 1
            /\ IF mounted
                 THEN /\ isCountingDown' = again
                      /\ countdownValue' = IF again THEN loops[l].countdownTime
                                           ELSE countdownValue
                      /\ capturedPhotos' = IF photo # <<>>
                                             THEN AppendPhoto(capturedPhotos, photo)
                                             ELSE capturedPhotos
                      /\ isCapturing' = IF return THEN FALSE ELSE isCapturing
                 ELSE UNCHANGED <<isCountingDown, countdownValue, capturedPhotos,
                                  isCapturing>>
    /\ UNCHANGED <<mounted, cameraVars, stream, activeFilter, countdownTime,
                   captureTime, selectedStickerTheme, selectedStripStyle, rendered,
                   dlClosure, runs, startOutcome, composes>>
    /\ UNCHANGED authVars

\* the pause timer between two shots fires: the next iteration begins
PauseElapsed(l) ==
    /\ loops[l].pc = "pause"
    /\ LET i == loops[l].i + 1
           again == LoopContinues(i)
       IN /\ loops' = [loops EXCEPT ![l] =
                         IF again
                           THEN [@ EXCEPT !.i = i, !.count = loops[l].countdownTime,
                                          !.pc = "countdown"]
                           ELSE DoneLoop]
          /\ IF mounted
               THEN /\ isCountingDown' = IF again THEN TRUE ELSE isCountingDown
                    /\ countdownValue' = IF again THEN loops[l].countdownTime
                                         ELSE countdownValue
                    /\ isCapturing' = IF again THEN isCapturing ELSE FALSE
               ELSE UNCHANGED <<isCountingDown, countdownValue, isCapturing>>
    /\ UNCHANGED <<mounted, cameraVars, stream, activeFilter, countdownTime,
                   capturedPhotos, captureTime, selectedStickerTheme,
                   selectedStripStyle, rendered, dlClosure, histVars, composes>>
    /\ UNCHANGED authVars

\* a filter button is pressed
SelectFilter(f) ==
    /\ mounted
    /\ f # activeFilter
    /\ activeFilter' = f
    /\ UNCHANGED <<mounted, cameraVars, stream, countdownTime, isCountingDown,
                   countdownValue, capturedPhotos, isCapturing, captureTime,
                   selectedStickerTheme, selectedStripStyle, rendered, dlClosure,
                   loops, histVars, composes>>
    /\ UNCHANGED authVars

\* a countdown length is chosen in the selector
SelectCountdown(t) ==
    /\ mounted
    /\ t # countdownTime
    /\ countdownTime' = t
    /\ UNCHANGED <<mounted, cameraVars, stream, activeFilter, isCountingDown,
                   countdownValue, capturedPhotos, isCapturing, captureTime,
                   selectedStickerTheme, selectedStripStyle, rendered, dlClosure,
                   loops, histVars, composes>>
    /\ UNCHANGED authVars

\* ---- Strip Compositor ----

\* variant: no barrier, every load finalizes
AllLoadedNoBarrier(loadedCount, numPhotos) == loadedCount >= 1

\* loadedCount === capturedPhotos.length
AllLoaded(loadedCount, numPhotos) == loadedCount = numPhotos

\* the sticker branch of img.onload is taken: the theme is not 'none', it is
\* found in STICKER_THEMES and it has an image
StickerWanted(theme) ==
    /\ theme # "none"
    /\ theme \in DOMAIN StickerThemes
    /\ StickerThemes[theme] > 0

\* variant: the random value is rounded instead of floored
StickerCountRounded(r) == ((4 * r + RandomSteps) \div (2 * RandomSteps)) + 7

\* Math.floor(Math.random() * 2) + 7, for Math.random() = r / RandomSteps
StickerCount(r) == ((r * 2) \div RandomSteps) + 7

\* downloadPhotoStrip up to the end of the forEach that starts the loads
downloadPhotoStrip(ctxOk) ==
    LET photos == rendered.capturedPhotos
        numPhotos == Len(photos)
    IN IF numPhotos = 0 \/ ~ctxOk
         THEN UNCHANGED composes
         ELSE composes' = Append(composes,
                [photos |-> photos,
                 width |-> StripWidth,
                 height |-> StripHeight(numPhotos),
                 filter |-> dlClosure.activeFilter,
                 captureTime |-> dlClosure.captureTime,
                 theme |-> dlClosure.selectedStickerTheme,
                 sticker |-> [k \in 1..numPhotos |-> "none"],
                 stickerCount |-> [k \in 1..numPhotos |-> 0],
                 fileStickers |-> <<>>,
                 img |-> [k \in 1..numPhotos |-> "loading"],
                 drawn |-> {},
                 loadedCount |-> 0,
                 label |-> <<>>,
                 downloads |-> 0,
                 file |-> {}])

\* the Download button of the strip panel is pressed
DownloadClick ==
    /\ mounted
    /\ Len(rendered.capturedPhotos) > 0
    /\ Len(composes) < MaxComposes
    /\ \E ctxOk \in BOOLEAN : downloadPhotoStrip(ctxOk)
    /\ UNCHANGED <<mounted, cameraVars, stateVars, rendered, dlClosure, loops,
                   histVars>>
    /\ UNCHANGED authVars

\* img.onload of snapshot k of compose call c
ImageLoaded(c, k) ==
    /\ c \in 1..Len(composes)
    /\ k \in 1..Len(composes[c].photos)
    /\ composes[c].img[k] = "loading"
    /\ LET cm == composes[c]
           index == k - 1
           numPhotos == Len(cm.photos)
           drawn == cm.drawn \cup {[index |-> index, x |-> photoLeft, y |-> SlotY(index),
                                    w |-> photoWidth, h |-> photoHeight,
                                    photo |-> cm.photos[k], filter |-> cm.filter]}
           loadedCount == cm.loadedCount + 1
           done == AllLoaded(loadedCount, numPhotos)
       IN composes' = [composes EXCEPT ![c] =
            [cm EXCEPT !.img[k] = "loaded",
                       !.sticker[k] = IF StickerWanted(cm.theme) THEN "loading" ELSE @,
                       !.fileStickers = IF done THEN cm.stickerCount ELSE @,
                       !.drawn = drawn,
                       !.loadedCount = loadedCount,
                       !.label = IF done THEN <<cm.captureTime>> ELSE @,
                       !.downloads = IF done THEN @ + 1 ELSE @,
                       !.file = IF done THEN drawn ELSE @]]
    /\ UNCHANGED <<mounted, cameraVars, stateVars, rendered, dlClosure, loops,
                   histVars>>
    /\ UNCHANGED authVars

\* the load of snapshot k of compose call c fails; no onerror is installed
ImageFailed(c, k) ==
    /\ c \in 1..Len(composes)
    /\ k \in 1..Len(composes[c].photos)
    /\ composes[c].img[k] = "loading"
    /\ composes' = [composes EXCEPT ![c].img[k] = "failed"]
    /\ UNCHANGED <<mounted, cameraVars, stateVars, rendered, dlClosure, loops,
                   histVars>>
    /\ UNCHANGED authVars

\* stickerImg.onload for photo k of compose call c: 7 or 8 stickers are drawn
StickerLoaded(c, k) ==
    /\ c \in 1..Len(composes)
    /\ k \in 1..Len(composes[c].photos)
    /\ composes[c].sticker[k] = "loading"
    /\ \E r \in RandomValues :
         composes' = [composes EXCEPT ![c].sticker[k] = "loaded",
                                      ![c].stickerCount[k] = StickerCount(r)]
    /\ UNCHANGED <<mounted, cameraVars, stateVars, rendered, dlClosure, loops,
                   histVars>>
    /\ UNCHANGED authVars

\* the sticker image for photo k of compose call c fails to load
StickerFailed(c, k) ==
    /\ c \in 1..Len(composes)
    /\ k \in 1..Len(composes[c].photos)
    /\ composes[c].sticker[k] = "loading"
    /\ composes' = [composes EXCEPT ![c].sticker[k] = "failed"]
    /\ UNCHANGED <<mounted, cameraVars, stateVars, rendered, dlClosure, loops,
                   histVars>>
    /\ UNCHANGED authVars

Next ==
    \/ CameraGranted
    \/ CameraDenied
    \/ Render
    \/ Unmount
    \/ StartRequest
    \/ \E l \in 1..MaxRuns : CountdownTick(l)
    \/ \E l \in 1..MaxRuns : Shot(l)
    \/ \E l \in 1..MaxRuns : PauseElapsed(l)
    \/ \E f \in Filters : SelectFilter(f)
    \/ \E t \in CountdownTimes : SelectCountdown(t)

\* the component from mount on: camera, capture runs, filter and countdown choice
Spec == Init /\ [][Next]_vars

\* ---- the compositor on the result of a finished capture run ----

\* the shots of S in shot order
ShotsInOrder(S) ==
    [k \in 1..Cardinality(S) |->
        CHOOSE x \in S : Cardinality({y \in S : y < x}) = k - 1]

\* The state a first capture run leaves behind once its last update is
\* rendered: the shots S whose grab succeeded, taken with the filter f that
\* was active at the start, the download closure holding the filter fr of the
\* render that last changed capturedPhotos, the filter fa active now, and the
\* sticker theme.
ComposeStart(S, f, fr, fa, theme) ==
      LET shots == ShotsInOrder(S)
          photos == [k \in 1..Len(shots) |-> [run |-> 1, shot |-> shots[k], filter |-> f]]
      IN
      /\ SignedIn
      /\ mounted = TRUE
      /\ cameraPc = "granted"
      /\ tracks = "live"
      /\ srcObject = MediaStream
      /\ stream = MediaStream
      /\ activeFilter = fa
      /\ countdownTime = 3
      /\ isCountingDown = FALSE
      /\ countdownValue = 1
      /\ capturedPhotos = photos
      /\ isCapturing = FALSE
      /\ captureTime = 1
      /\ selectedStickerTheme = theme
      /\ selectedStripStyle = "strip-custom"
      /\ rendered = RenderOf(FALSE, photos, MediaStream)
      /\ dlClosure = FreshDlClosure(fr, 1, theme)
      /\ loops = [l \in 1..MaxRuns |-> IF l = 1 THEN DoneLoop ELSE IdleLoop]
      /\ runs = 1
      /\ grabbed = shots
      /\ attempts = NumShots
      /\ startOutcome = "started"
      /\ composes = <<>>

\* any finished first run, with the sticker theme the interface leaves selected
InitCompose ==
    \E S \in SUBSET (1..NumShots) : \E f \in Filters, fr \in Filters, fa \in Filters :
      ComposeStart(S, f, fr, fa, "none")

NextCompose ==
    \/ DownloadClick
    \/ \E c \in 1..MaxComposes : \E k \in 1..NumShots : ImageLoaded(c, k)
    \/ \E c \in 1..MaxComposes : \E k \in 1..NumShots : ImageFailed(c, k)
    \/ \E f \in Filters : SelectFilter(f)
    \/ Unmount

SpecCompose == InitCompose /\ [][NextCompose]_vars

\* ---- the compositor with a sticker theme ----

\* selectedStickerTheme has no setter in the interface; the sticker branch of
\* the compositor is exercised with the theme given as an input: any theme of
\* the catalog other than 'none', on the result of a finished first run.
InitSticker ==
    \E S \in SUBSET (1..NumShots) : \E theme \in DOMAIN StickerThemes \ {"none"} :
      ComposeStart(S, 1, 1, 1, theme)

\* a press of Download, within the number of presses explored here
StickerDownloadClick ==
    /\ Len(composes) < MaxStickerComposes
    /\ DownloadClick

NextSticker ==
    \/ StickerDownloadClick
    \/ \E c \in 1..MaxComposes : \E k \in 1..NumShots : ImageLoaded(c, k)
    \/ \E c \in 1..MaxComposes : \E k \in 1..NumShots : StickerLoaded(c, k)
    \/ \E c \in 1..MaxComposes : \E k \in 1..NumShots : StickerFailed(c, k)

SpecSticker == InitSticker /\ [][NextSticker]_vars

\* ---- the auth service: calls ----

\* the photobooth component is not on screen
BoothAbsent ==
    /\ mounted = FALSE
    /\ cameraPc = "idle"
    /\ tracks = "none"
    /\ srcObject = NoStream
    /\ stream = NoStream
    /\ activeFilter = 1
    /\ countdownTime = 3
    /\ isCountingDown = FALSE
    /\ countdownValue = 0
    /\ capturedPhotos = <<>>
    /\ isCapturing = FALSE
    /\ captureTime = 0
    /\ selectedStickerTheme = "none"
    /\ selectedStripStyle = "strip-custom"
    /\ rendered = RenderOf(FALSE, <<>>, NoStream)
    /\ dlClosure = FreshDlClosure(1, 0, "none")
    /\ loops = [l \in 1..MaxRuns |-> IdleLoop]
    /\ runs = 0
    /\ grabbed = <<>>
    /\ attempts = 0
    /\ startOutcome = "none"
    /\ composes = <<>>

\* an auth call that has reached its await: its arguments, who called it,
\* and the location state the caller's continuation closes over
Call(op, email, password, remember, caller, from) ==
    <<op, email, password, remember, caller, from>>

CallOp(call) == call[1]
CallEmail(call) == call[2]
CallPassword(call) == call[3]
CallRemember(call) == call[4]
CallCaller(call) == call[5]
CallFrom(call) == call[6]

\* the call is waiting for its delay
InFlight(call) == \E i \in 1..Len(pending) : pending[i] = call

\* the calls in flight once `call` has resumed, in the order they were made
Without(q, call) ==
    LET i == CHOOSE j \in 1..Len(q) : q[j] = call /\ \A h \in 1..(j - 1) : q[h] # call
    IN SubSeq(q, 1, i - 1) \o SubSeq(q, i + 1, Len(q))

\* auth.register(email, password) is called and waits NETWORK_DELAY_MS; at
\* most `limit` calls are explored in flight
register(email, password, limit) ==
    /\ Len(pending) < limit
    /\ pending' = Append(pending, Call("register", email, password, FALSE, "api", NoFrom))
    /\ UNCHANGED <<users, localToken, sessionToken, lastResult, location, view>>
    /\ UNCHANGED boothVars

\* the delay of a register call is over: the rest of register runs
registerSettled(call) ==
    /\ InFlight(call)
    /\ CallOp(call) = "register"
    /\ LET result == registerResult(users, CallEmail(call), CallPassword(call)) IN
         /\ lastResult' = result
         /\ users' = IF result = "ok" THEN PutUser(users, CallEmail(call), CallPassword(call))
                                      ELSE users
    /\ pending' = Without(pending, call)
    /\ UNCHANGED <<localToken, sessionToken, location, view>>
    /\ UNCHANGED boothVars

\* auth.login(email, password, remember) is called and waits NETWORK_DELAY_MS;
\* at most `limit` calls are explored in flight
login(email, password, remember, limit) ==
    /\ Len(pending) < limit
    /\ pending' = Append(pending, Call("login", email, password, remember, "api", NoFrom))
    /\ UNCHANGED <<users, localToken, sessionToken, lastResult, location, view>>
    /\ UNCHANGED boothVars

\* variant: the token is written to both storages
StoreTokenBoth(token, remember) == [local |-> token, session |-> token]

\* storage = remember ? localStorage : sessionStorage; storage.setItem(KEY, token)
StoreToken(token, remember) ==
    [local |-> IF remember THEN token ELSE localToken,
     session |-> IF remember THEN sessionToken ELSE token]

\* the delay of a login call is over: the rest of login runs, and then the
\* continuation of LoginPage's handleSubmit if the form made the call
loginSettled(call) ==
    /\ InFlight(call)
    /\ CallOp(call) = "login"
    /\ LET result == loginResult(users, CallEmail(call), CallPassword(call))
           stored == StoreToken(btoa(TokenPayload(CallEmail(call))), CallRemember(call))
       IN
         /\ lastResult' = result
         /\ localToken' = IF result = "ok" THEN stored.local ELSE localToken
         /\ sessionToken' = IF result = "ok" THEN stored.session ELSE sessionToken
         /\ IF result = "ok" /\ CallCaller(call) = "LoginPage"
              THEN /\ location' = Location(IF CallFrom(call) # NoFrom THEN CallFrom(call)
                                                                     ELSE "/photobooth",
                                        NoFrom)
                   /\ view' = "pending"
              ELSE UNCHANGED <<location, view>>
    /\ pending' = Without(pending, call)
    /\ UNCHANGED users
    /\ UNCHANGED boothVars

\* variant: only the remembered token is removed
logoutLocalOnly ==
    /\ localToken' = NoToken
    /\ lastResult' = "void"
    /\ UNCHANGED <<users, sessionToken, pending, location, view>>
    /\ UNCHANGED boothVars

\* auth.logout(): it returns nothing
logout ==
    /\ localToken' = NoToken
    /\ sessionToken' = NoToken
    /\ lastResult' = "void"
    /\ UNCHANGED <<users, pending, location, view>>
    /\ UNCHANGED boothVars

\* the addresses and passwords the service is called with
Emails == {EmailA, EmailCyr, EmailYahoo, EmailNoLocal}
Passwords == {PwSecret, PwOther, PwShort, PwEuro}

\* a fresh browser profile, before the app shows a page
InitAuth ==
    /\ BoothAbsent
    /\ users = <<>>
    /\ localToken = NoToken
    /\ sessionToken = NoToken
    /\ pending = <<>>
    /\ lastResult = "none"
    /\ location = Location("/login", NoFrom)
    /\ view = "pending"

NextAuth ==
    \/ \E email \in Emails, password \in Passwords : register(email, password, MaxPending)
    \/ \E email \in Emails, password \in Passwords :
         registerSettled(Call("register", email, password, FALSE, "api", NoFrom))
    \/ \E email \in Emails, password \in Passwords, remember \in BOOLEAN :
         login(email, password, remember, MaxPending)
    \/ \E email \in Emails, password \in Passwords, remember \in BOOLEAN :
         loginSettled(Call("login", email, password, remember, "api", NoFrom))
    \/ logout

SpecAuth == InitAuth /\ [][NextAuth]_vars

\* ---- overlapping registrations ----

\* the page is reloaded: calls in flight are gone with the page, both storages
\* keep their contents, and the router renders the location again
Reload ==
    /\ pending' = <<>>
    /\ view' = "pending"
    /\ UNCHANGED <<users, localToken, sessionToken, lastResult, location>>
    /\ UNCHANGED boothVars

RegisterEmails == {EmailA, EmailCyr}
RegisterPasswords == {PwSecret, PwOther, PwShort}

NextRegister ==
    \/ \E email \in RegisterEmails, password \in RegisterPasswords :
         register(email, password, MaxOverlap)
    \/ \E email \in RegisterEmails, password \in RegisterPasswords :
         registerSettled(Call("register", email, password, FALSE, "api", NoFrom))
    \/ Reload

SpecRegister == InitAuth /\ [][NextRegister]_vars

\* ---- routes and the browser session ----

\* the decision of ProtectedRoute at the time it is evaluated
ProtectedRouteAllows == isAuthenticated

\* in-app navigation to a path of the route table
GoTo(path) ==
    /\ location' = Location(path, NoFrom)
    /\ view' = "pending"
    /\ UNCHANGED <<users, localToken, sessionToken, pending, lastResult>>
    /\ UNCHANGED boothVars

\* the router renders /photobooth, which is wrapped in ProtectedRoute: the
\* children, or <Navigate to="/login" state={{ from: location }} replace />
ProtectedRoute ==
    /\ Pathname(location) = "/photobooth"
    /\ view = "pending"
    /\ IF ProtectedRouteAllows
         THEN /\ view' = "children"
              /\ UNCHANGED location
         ELSE /\ location' = Location("/login", Pathname(location))
              /\ view' = "pending"
    /\ UNCHANGED <<users, localToken, sessionToken, pending, lastResult>>
    /\ UNCHANGED boothVars

\* the router renders /login: the LoginPage component shows its form
LoginPage ==
    /\ Pathname(location) = "/login"
    /\ view = "pending"
    /\ view' = "LoginPage"
    /\ UNCHANGED <<users, localToken, sessionToken, pending, lastResult, location>>
    /\ UNCHANGED boothVars

\* EMAIL_REGEX /^[^\s@]+@[^\s@]+\.[^\s@]+$/ and the 6-character minimum
validateForm(email, password) ==
    /\ Len(email) >= 3
    /\ email[Len(email) - 1] = "@"
    /\ email[Len(email)] \in {"gmail.com", "yahoo.com"}
    /\ \A i \in 1..(Len(email) - 2) : email[i] \notin (Whitespace \cup {"@"})
    /\ Len(password) >= 6

\* the sign-in form is submitted while no call is in flight (the form is
\* disabled while loading): auth.login is called with the form's values
handleSubmit(email, password, remember) ==
    /\ view = "LoginPage"
    /\ pending = <<>>
    /\ validateForm(email, password)
    /\ pending' = <<Call("login", email, password, remember, "LoginPage",
                          From(location))>>
    /\ UNCHANGED <<users, localToken, sessionToken, lastResult, location, view>>
    /\ UNCHANGED boothVars

\* the tab is closed and the app is opened in a new one: sessionStorage is
\* empty, localStorage keeps its contents
NewTab(path) ==
    /\ sessionToken' = NoToken
    /\ pending' = <<>>
    /\ location' = Location(path, NoFrom)
    /\ view' = "pending"
    /\ UNCHANGED <<users, localToken, lastResult>>
    /\ UNCHANGED boothVars

Paths == {"/login", "/photobooth"}
SessionPasswords == {PwSecret, PwOther}

\* a registered visitor opens the app
InitSession ==
    /\ BoothAbsent
    /\ users = <<User(EmailA, hashPassword(PwSecret))>>
    /\ localToken = NoToken
    /\ sessionToken = NoToken
    /\ pending = <<>>
    /\ lastResult = "ok"
    /\ \E path \in Paths : location = Location(path, NoFrom)
    /\ view = "pending"

NextSession ==
    \/ \E path \in Paths : GoTo(path)
    \/ ProtectedRoute
    \/ LoginPage
    \/ \E password \in SessionPasswords, remember \in BOOLEAN :
         handleSubmit(EmailA, password, remember)
    \/ \E password \in SessionPasswords, remember \in BOOLEAN, from \in Paths \cup {NoFrom} :
         loginSettled(Call("login", EmailA, password, remember, "LoginPage", from))
    \/ Reload
    \/ \E path \in Paths : NewTab(path)
    \/ logout

SpecSession == InitSession /\ [][NextSession]_vars

\* ---- properties ----

\* the latest capture run has returned
RunCompleted == runs > 0 /\ loops[runs].pc = "done"

ShotsOf(photos) == [k \in 1..Len(photos) |-> photos[k].shot]

InShotOrder(photos) ==
    \A a, b \in 1..Len(photos) : a < b => photos[a].shot < photos[b].shot

\* C1: at most one capture loop is in progress at any time, and a start
\* request made while a loop is in progress starts no loop and leaves the
\* snapshot sequence, the capture time and the countdown value as they are.
C1_SingleSequence ==
    /\ [](Cardinality(ActiveLoops) <= 1)
    /\ [][(ActiveLoops # {} /\ StartRequest)
            => UNCHANGED <<loops, runs, capturedPhotos, captureTime, countdownValue>>]_vars

C1_Witness == ActiveLoops # {} /\ startOutcome = "ignored" /\ runs = 1

\* C2: a completed run in which every grab succeeded leaves exactly 3
\* snapshots, the k-th being the one of the k-th shot of that run.
C2_ThreeInOrder ==
    (RunCompleted /\ grabbed = <<1, 2, 3>>)
      => /\ Len(capturedPhotos) = 3
         /\ \A k \in 1..3 : capturedPhotos[k].shot = k /\ capturedPhotos[k].run = runs

C2_Witness ==
    RunCompleted /\ grabbed = <<1, 2, 3>> /\ Len(capturedPhotos) = 3 /\ ~isCapturing

\* C3: each snapshot is taken with the filter that is active at the instant of
\* its shot.
C3_FilterAtShot ==
    [][Len(capturedPhotos') > Len(capturedPhotos)
         => capturedPhotos'[Len(capturedPhotos')].filter = activeFilter]_vars

\* C4: the download of a compose call is triggered only when all of its
\* snapshot images are loaded and drawn, at most once, and it is triggered
\* once all of them are loaded.
C4_DownloadAfterAllLoaded ==
    \A c \in 1..Len(composes) :
      LET cm == composes[c]
          n == Len(cm.photos)
          allLoaded == \A k \in 1..n : cm.img[k] = "loaded"
      IN /\ cm.downloads <= 1
         /\ cm.downloads = 1 <=> allLoaded
         /\ cm.downloads = 1 => {d.index : d \in cm.file} = 0..(n - 1)

C4_Witness ==
    /\ \E c \in 1..Len(composes) :
         Len(composes[c].photos) = 3 /\ composes[c].downloads = 1
    /\ \E c \in 1..Len(composes) :
         /\ Len(composes[c].photos) = 3
         /\ composes[c].img[3] = "loaded"
         /\ composes[c].img[1] = "loading"
         /\ composes[c].downloads = 0

\* C5: once the component is unmounted and no callback is pending, the tracks
\* of every acquired stream are stopped.
C5_CameraReleased ==
    (~mounted /\ cameraPc # "pending" /\ ActiveLoops = {}) => tracks # "live"

\* C6: the snapshot sequence never holds snapshots of two different runs; its
\* snapshots are those of the latest run.
C6_NoCrossRun ==
    /\ \A k \in 1..Len(capturedPhotos) : capturedPhotos[k].run = runs
    /\ \A a, b \in 1..Len(rendered.capturedPhotos) :
         rendered.capturedPhotos[a].run = rendered.capturedPhotos[b].run

C6_Witness == runs = 2 /\ Len(capturedPhotos) >= 1 /\ capturedPhotos[1].run = 2

\* C7: a shot whose surface is unavailable appends nothing, the remaining
\* shots are still attempted and the run returns; the sequence holds the
\* snapshots of the successful grabs and of no other shot.
C7_SkippedShots ==
    /\ ShotsOf(capturedPhotos) = grabbed
    /\ RunCompleted => attempts = NumShots
    /\ (RunCompleted /\ mounted) => ~isCapturing

C7_Witness ==
    RunCompleted /\ mounted /\ grabbed = <<1, 3>> /\ Len(capturedPhotos) = 2

\* C8: the snapshot sequence always holds between 0 and 3 snapshots, in shot order.
C8_BoundedOrdered ==
    /\ Len(capturedPhotos) \in 0..3
    /\ InShotOrder(capturedPhotos)
    /\ Len(rendered.capturedPhotos) \in 0..3
    /\ InShotOrder(rendered.capturedPhotos)

C8_Witness == runs = 2 /\ RunCompleted /\ Len(capturedPhotos) = 3

\* C9: the strip canvas is 440 wide and 60 + 300*n + 10*(n-1) + 40 high for a
\* compose call over n snapshots.
C9_StripHeight ==
    \A c \in 1..Len(composes) :
      LET n == Len(composes[c].photos)
      IN /\ n >= 1
         /\ composes[c].width = 440
         /\ composes[c].height = 60 + 300 * n + 10 * (n - 1) + 40

C9_Witness ==
    \E c \in 1..Len(composes) :
      Len(composes[c].photos) = 2 /\ composes[c].height = 710

\* C10: a compose call in which an image failed to load still triggers its
\* download once all of its loads have settled.
C10_FailureStillDownloads ==
    \A c \in 1..Len(composes) :
      (\A k \in 1..Len(composes[c].photos) : composes[c].img[k] # "loading")
        => composes[c].downloads >= 1

\* C11: a start request made while no stream is attached changes neither the
\* snapshot sequence, the capture time nor the capturing flag, and begins no
\* countdown.
C11_NoStreamNoStart ==
    [][((stream = NoStream \/ srcObject = NoStream) /\ StartRequest)
         => UNCHANGED <<capturedPhotos, captureTime, isCapturing, isCountingDown,
                        countdownValue, loops, runs>>]_vars

C11_Witness ==
    /\ startOutcome = "ignored"
    /\ stream = NoStream
    /\ srcObject = NoStream
    /\ cameraPc = "denied"
    /\ runs = 0

\* C12: once the component is unmounted, the capture loop takes no further
\* step: no countdown tick and no shot attempt.
C12_TeardownStopsTimers ==
    [][~mounted => (loops' = loops /\ attempts' = attempts)]_vars

\* C13: the capture time is set by a start and by nothing else, it is the time
\* of the latest start, and the capture time held by downloadPhotoStrip (the
\* label it draws) equals it.
C13_CaptureTimeOncePerRun ==
    /\ [](captureTime = runs)
    /\ [](mounted => dlClosure.captureTime = captureTime)
    /\ [][captureTime' # captureTime => runs' = runs + 1]_vars

C13_Witness ==
    /\ runs = 2
    /\ RunCompleted
    /\ mounted
    /\ captureTime = 2
    /\ dlClosure.captureTime = 2
    /\ Len(rendered.capturedPhotos) = 3

\* C14: in a compose call with a sticker theme other than 'none', every photo
\* whose sticker image has loaded carries 7 or 8 stickers, and the photos of
\* one composite may carry different counts.
C14_StickerCount ==
    \A c \in 1..Len(composes) : \A k \in 1..Len(composes[c].photos) :
      /\ composes[c].sticker[k] = "loaded" => composes[c].stickerCount[k] \in {7, 8}
      /\ composes[c].sticker[k] # "loaded" => composes[c].stickerCount[k] = 0

C14_Witness ==
    \E c \in 1..Len(composes) :
      /\ composes[c].theme = "heart"
      /\ Len(composes[c].photos) = 3
      /\ composes[c].sticker[1] = "loaded" /\ composes[c].stickerCount[1] = 7
      /\ composes[c].sticker[2] = "loaded" /\ composes[c].stickerCount[2] = 8

\* the storages hold a token in at least one of them
TokenPresent == localToken # NoToken \/ sessionToken # NoToken

\* C15: when ProtectedRoute is evaluated it renders its children if and only if
\* localStorage or sessionStorage holds a token at that time; otherwise it
\* renders a redirect to /login that carries the requested location and the
\* children are not rendered.  Children never appear in any other way.
C15_GuardedChildren ==
    [][/\ ProtectedRoute =>
            IF TokenPresent
              THEN view' = "children" /\ location' = location
              ELSE /\ view' # "children"
                   /\ location' = Location("/login", "/photobooth")
       /\ (view' = "children" /\ view # "children") => TokenPresent]_vars

C15_Witness ==
    /\ view = "children"
    /\ localToken = NoToken
    /\ sessionToken = btoa(TokenPayload(EmailA))

\* the record stored for the address holds the password
PasswordMatches(store, email, password) ==
    /\ UserIndex(store, email) # 0
    /\ UserStub(store[UserIndex(store, email)]) = <<"b64">> \o password

\* the error the documented order of checks gives a login that must fail
FirstApplicableError(store, email, password) ==
    IF ~isValidGmailEmail(email) THEN ErrDomain
    ELSE IF UserIndex(store, email) = 0 THEN ErrNotFound
    ELSE ErrIncorrect

\* C16: a login succeeds and stores a token if and only if the address is a
\* gmail.com address, it was registered, and the password is the registered
\* one; otherwise it fails with the first applicable error in the order
\* domain not allowed, account not found, incorrect password.
C16_LoginOutcome ==
    [][\A email \in Emails, password \in Passwords, remember \in BOOLEAN :
         loginSettled(Call("login", email, password, remember, "api", NoFrom)) =>
           IF isValidGmailEmail(email) /\ PasswordMatches(users, email, password)
             THEN lastResult' = "ok" /\ TokenPresent'
             ELSE /\ lastResult' = FirstApplicableError(users, email, password)
                  /\ UNCHANGED <<localToken, sessionToken>>]_vars

\* C17: register with an address that is already in the store fails with
\* "Account already exists. Try signing in." and leaves the store unchanged,
\* for repeated and overlapping calls.
C17_DuplicateRejected ==
    [][\A email \in RegisterEmails, password \in RegisterPasswords :
         (/\ registerSettled(Call("register", email, password, FALSE, "api", NoFrom))
          /\ UserIndex(users, email) # 0)
           => (lastResult' = ErrExists /\ users' = users)]_vars

\* C17 as amended: register with an address that is already in the store
\* leaves the store unchanged; it fails with "Account already exists. Try
\* signing in." when the password has at least 6 characters and with
\* "Password must be at least 6 characters." when it is shorter.
C17_DuplicateRejectedByLength ==
    [][\A email \in RegisterEmails, password \in RegisterPasswords :
         (/\ registerSettled(Call("register", email, password, FALSE, "api", NoFrom))
          /\ UserIndex(users, email) # 0)
           => /\ users' = users
              /\ lastResult' = IF Len(password) >= 6 THEN ErrExists ELSE ErrPassword]_vars

C17_Witness ==
    /\ lastResult = ErrExists
    /\ users = <<User(EmailA, hashPassword(PwSecret))>>
    /\ InFlight(Call("register", EmailA, PwOther, FALSE, "api", NoFrom))

\* C18: a successful login writes the token to exactly one storage: to
\* localStorage with "Remember me", to sessionStorage without; the other
\* storage keeps what it held.
C18_OneStorageWritten ==
    [][\A email \in Emails, password \in Passwords, remember \in BOOLEAN :
         (/\ loginSettled(Call("login", email, password, remember, "api", NoFrom))
          /\ lastResult' = "ok")
           => IF remember
                THEN /\ localToken' = btoa(TokenPayload(email))
                     /\ sessionToken' = sessionToken
                ELSE /\ sessionToken' = btoa(TokenPayload(email))
                     /\ localToken' = localToken]_vars

C18_Witness ==
    /\ lastResult = "ok"
    /\ localToken = btoa(TokenPayload(EmailA))
    /\ sessionToken = NoToken

\* C19: after a successful login without "Remember me" (the token is in
\* sessionStorage only), a page reload leaves the user logged out.
C19_ReloadEndsSession ==
    [][(Reload /\ localToken = NoToken /\ sessionToken # NoToken)
         => ~TokenPresent']_vars

\* C20: after a successful login with "Remember me" the user is still logged
\* in after a page reload, and the login page, when it is rendered for a
\* logged-in user, redirects to /photobooth.
C20_RememberedRedirect ==
    [][/\ (Reload /\ localToken # NoToken) => localToken' = localToken
       /\ (LoginPage /\ localToken # NoToken) => Pathname(location') = "/photobooth"]_vars

\* C21: after logout no storage holds a token, whatever logins preceded it;
\* from then on every evaluation of the protected route redirects to /login,
\* and a token appears again only when a login succeeds.
C21_LogoutEndsSession ==
    [][/\ logout => ~TokenPresent'
       /\ (ProtectedRoute /\ ~TokenPresent)
            => (view' # "children" /\ Pathname(location') = "/login")
       /\ (~TokenPresent /\ TokenPresent')
            => (lastResult' = "ok" /\ Len(pending') < Len(pending))]_vars

C21_Witness ==
    /\ lastResult = "void"
    /\ ~TokenPresent
    /\ view = "children"


\* the countdown of shot i + 1 of loop l begins in this step
CountdownBegins(l) ==
    /\ loops'[l].pc = "countdown"
    /\ loops[l].pc # "countdown" \/ loops'[l].i # loops[l].i

\* C22: while the component is mounted, each of the three countdowns of a run
\* shows the run's countdown time first, then one less per tick down to 1; a
\* shot is attempted only by the timer that ends the tick of value 1; the
\* overlay flag is set exactly while a countdown is running; and the loop
\* pauses after shots 1 and 2 and ends after shot 3.
C22_CountdownPerShot ==
    [][mounted' =>
         /\ \A l \in 1..MaxRuns :
              /\ loops'[l].pc = "countdown" =>
                   /\ isCountingDown'
                   /\ countdownValue' = loops'[l].count
                   /\ countdownValue' \in 1..loops'[l].countdownTime
              /\ CountdownBegins(l) =>
                   /\ countdownValue' = loops'[l].countdownTime
                   /\ loops'[l].i \in 0..(NumShots - 1)
                   /\ loops'[l].i = 0 => countdownValue' = countdownTime
              /\ (loops[l].pc = "countdown" /\ ~CountdownBegins(l)
                    /\ countdownValue' # countdownValue) =>
                   /\ loops'[l].pc = "countdown"
                   /\ countdownValue' = countdownValue - 1
              /\ (loops[l].pc = "countdown" /\ attempts' = attempts + 1) =>
                   /\ countdownValue = 1
                   /\ attempts' = loops[l].i + 1
                   /\ loops'[l].pc = IF attempts' < NumShots THEN "pause"
                                                             ELSE "done"
         /\ attempts' # attempts =>
              \/ attempts' = 0 /\ runs' = runs + 1
              \/ /\ attempts' = attempts + 1
                 /\ \E l \in 1..MaxRuns : loops[l].pc = "countdown"
         /\ isCountingDown' <=> \E l \in 1..MaxRuns : loops'[l].pc = "countdown"
      ]_vars

C22_Witness ==
    /\ mounted
    /\ RunCompleted
    /\ attempts = NumShots
    /\ ~isCountingDown
    /\ countdownValue = 1

\* the timers of a running loop fire and queued updates are committed
TimersFire ==
    /\ WF_vars(Render)
    /\ \A l \in 1..MaxRuns :
         /\ WF_vars(CountdownTick(l))
         /\ WF_vars(Shot(l))
         /\ WF_vars(PauseElapsed(l))

SpecTimers == Init /\ [][Next]_vars /\ TimersFire

\* the component is idle and its Capture button accepts a press
Idle ==
    /\ ~isCapturing
    /\ ~rendered.isCapturing
    /\ ~ButtonDisabled
    /\ ActiveLoops = {}

\* C23: if the timers fire, a capture run of a component that stays mounted
\* ends after its third shot attempt, whatever the grabs returned: the
\* capturing flag is cleared and the Capture button accepts a press again.
C23_RunReturnsToIdle ==
    (mounted /\ isCapturing) ~> (~mounted \/ (Idle /\ attempts = NumShots))

C23_Witness ==
    /\ mounted
    /\ runs = 2
    /\ loops[1].pc = "done"
    /\ loops[2].pc = "countdown"
    /\ isCapturing
    /\ startOutcome = "started"

\* ---- capture runs and the compositor side by side ----

\* the mounted component once the camera stream is acquired and rendered
InitCaptureCompose ==
    /\ SignedIn
    /\ mounted = TRUE
    /\ cameraPc = "granted"
    /\ tracks = "live"
    /\ srcObject = MediaStream
    /\ stream = MediaStream
    /\ activeFilter = 1
    /\ countdownTime = 3
    /\ isCountingDown = FALSE
    /\ countdownValue = 0
    /\ capturedPhotos = <<>>
    /\ isCapturing = FALSE
    /\ captureTime = 0
    /\ selectedStickerTheme = "none"
    /\ selectedStripStyle = "strip-custom"
    /\ rendered = RenderOf(FALSE, <<>>, MediaStream)
    /\ dlClosure = FreshDlClosure(1, 0, "none")
    /\ loops = [l \in 1..MaxRuns |-> IdleLoop]
    /\ runs = 0
    /\ grabbed = <<>>
    /\ attempts = 0
    /\ startOutcome = "none"
    /\ composes = <<>>

\* variant: a second strip style is offered
stripStylesWithClassic == {"strip-custom", "strip-classic"}

\* the options of the strip style select
stripStyles == {"strip-custom"}

\* onChange of the strip style select of the strip panel; a changed style
\* re-creates downloadPhotoStrip
SelectStripStyle(style) ==
    /\ mounted
    /\ Len(rendered.capturedPhotos) > 0
    /\ selectedStripStyle' = style
    /\ dlClosure' = IF style # selectedStripStyle
                      THEN FreshDlClosure(activeFilter, captureTime, selectedStickerTheme)
                      ELSE dlClosure
    /\ UNCHANGED <<mounted, cameraVars, stream, activeFilter, countdownTime,
                   isCountingDown, countdownValue, capturedPhotos, isCapturing,
                   captureTime, selectedStickerTheme, rendered, loops, histVars,
                   composes>>
    /\ UNCHANGED authVars

NextCaptureCompose ==
    \/ Render
    \/ StartRequest
    \/ \E l \in 1..MaxRuns : CountdownTick(l)
    \/ \E l \in 1..MaxRuns : Shot(l)
    \/ \E l \in 1..MaxRuns : PauseElapsed(l)
    \/ DownloadClick
    \/ \E c \in 1..MaxComposes : \E k \in 1..NumShots : ImageLoaded(c, k)
    \/ \E style \in stripStyles : SelectStripStyle(style)

SpecCaptureCompose == InitCaptureCompose /\ [][NextCaptureCompose]_vars

\* compose call c writes its file in this step
Downloaded(c) ==
    /\ c \in 1..Len(composes)
    /\ composes'[c].downloads > composes[c].downloads

\* C24: a compose call starts only while no capture run is in progress, and no
\* file is written whose snapshots are the first one or two of a run that is
\* still capturing.
C24_ComposeOnlyWhenIdle ==
    [][/\ Len(composes') > Len(composes) => ActiveLoops = {}
       /\ \A c \in 1..MaxComposes : Downloaded(c) =>
            ~ \E l \in ActiveLoops :
                /\ Len(composes[c].photos) < NumShots
                /\ \A k \in 1..Len(composes[c].photos) : composes[c].photos[k].run = l
      ]_vars

\* the rows of the canvas covered by a drawn photo
Rows(d) == d.y..(d.y + d.h - 1)

\* C25: whatever the order of the image loads, the snapshot at 0-based index i
\* of the captured list is drawn at x = 20, y = 60 + 310 * i with size 400x300;
\* the photos appear top to bottom in capture order and no two slots overlap.
C25_SlotPerSnapshot ==
    \A c \in 1..Len(composes) :
      LET cm == composes[c] IN
      /\ InShotOrder(cm.photos)
      /\ \A k \in 1..Len(cm.photos) :
           cm.img[k] = "loaded" =>
             \E d \in cm.drawn :
               /\ d.index = k - 1
               /\ d.photo = cm.photos[k]
      /\ \A d \in cm.drawn :
           /\ d.index \in 0..(Len(cm.photos) - 1)
           /\ d.photo = cm.photos[d.index + 1]
           /\ d.y = 60 + d.index * (300 + 10)
           /\ d.w = 400 /\ d.h = 300
           /\ d.y + d.h <= cm.height
      /\ \A d1, d2 \in cm.drawn :
           /\ d1.index < d2.index => d1.y + d1.h <= d2.y
           /\ d1.index = d2.index => d1 = d2
           /\ d1 # d2 => Rows(d1) \cap Rows(d2) = {}

C25_Witness ==
    \E c \in 1..Len(composes) :
      /\ Len(composes[c].photos) = 3
      /\ {d.index : d \in composes[c].drawn} = {1, 2}
      /\ composes[c].img[1] = "loading"

\* C26: a compose call draws its photos with the filter that is active when
\* Download is pressed, whatever filters were selected since the capture ended.
C26_FilterAtDownload ==
    [][/\ Len(composes') > Len(composes) =>
            composes'[Len(composes')].filter = activeFilter
       /\ \A c \in 1..Len(composes') :
            \A d \in composes'[c].drawn :
              c <= Len(composes) => d.filter = composes[c].filter
      ]_vars

getCurrentUser ==
    IF getToken = NoToken THEN <<>>
    ELSE IF Len(users) > 0 THEN <<users[1]>>
    ELSE <<>>

AccountEmails == {EmailA, EmailB}
AccountPasswords == {PwSecret, PwOther}

NextAccounts ==
    \/ \E email \in AccountEmails, password \in AccountPasswords :
         register(email, password, MaxPending)
    \/ \E email \in AccountEmails, password \in AccountPasswords :
         registerSettled(Call("register", email, password, FALSE, "api", NoFrom))
    \/ \E email \in AccountEmails, password \in AccountPasswords, remember \in BOOLEAN :
         login(email, password, remember, MaxPending)
    \/ \E email \in AccountEmails, password \in AccountPasswords, remember \in BOOLEAN :
         loginSettled(Call("login", email, password, remember, "api", NoFrom))
    \/ logout

SpecAccounts == InitAuth /\ [][NextAccounts]_vars

\* C28: getCurrentUser returns null when no token is stored, and otherwise the
\* record of the user whose login wrote the token that getToken returns.
C28_CurrentUser ==
    /\ getToken = NoToken => getCurrentUser = <<>>
    /\ getToken # NoToken =>
         /\ Len(getCurrentUser) = 1
         /\ getToken = btoa(TokenPayload(UserEmail(getCurrentUser[1])))

\* C29: a register call, at its start and when it settles with or without
\* success, and a login that settles for a wrong domain, an unknown account
\* or a wrong password, leave both token storages as they were, and with
\* them the authenticated status.
C29_NoSessionChange ==
    [][\A email \in Emails, password \in Passwords :
         /\ register(email, password, MaxPending) =>
              UNCHANGED <<localToken, sessionToken>>
         /\ registerSettled(Call("register", email, password, FALSE, "api", NoFrom)) =>
              /\ UNCHANGED <<localToken, sessionToken>>
              /\ isAuthenticated' = isAuthenticated
         /\ \A remember \in BOOLEAN :
              (/\ loginSettled(Call("login", email, password, remember, "api", NoFrom))
               /\ ~(isValidGmailEmail(email) /\ PasswordMatches(users, email, password)))
                => /\ UNCHANGED <<localToken, sessionToken>>
                   /\ isAuthenticated' = isAuthenticated
                   /\ lastResult' # "ok"
      ]_vars

C29_Witness ==
    /\ Len(users) = 2
    /\ sessionToken # NoToken
    /\ localToken = NoToken
    /\ lastResult = ErrIncorrect

\* C30: whatever is done in the interface, the sticker theme stays "none" and
\* the strip style stays "strip-custom"; no compose call is made with another
\* theme and none starts a sticker image load or draws a sticker.
C30_NoStickerTheme ==
    /\ selectedStickerTheme = "none"
    /\ selectedStripStyle = "strip-custom"
    /\ dlClosure.selectedStickerTheme = "none"
    /\ \A c \in 1..Len(composes) :
         /\ ~StickerWanted(composes[c].theme)
         /\ \A k \in 1..Len(composes[c].photos) :
              /\ composes[c].sticker[k] = "none"
              /\ composes[c].stickerCount[k] = 0
         /\ \A k \in 1..Len(composes[c].fileStickers) : composes[c].fileStickers[k] = 0

C30_Witness ==
    /\ runs = 2
    /\ \E c \in 1..Len(composes) :
         /\ Len(composes[c].photos) = 3
         /\ composes[c].downloads = 1
         /\ composes[c].fileStickers = <<0, 0, 0>>
====
